---- MODULE Spec2Model ----
(***************************************************************************)
(* FocusedVaultManager and FocusedVault                                    *)
(* (extensions/vscode/src/vaults/FocusedVaultManager.ts) as a state        *)
(* machine.  One step is one turn of the Node event loop: a public method  *)
(* call, a timer callback, a WebSocket event handler, or the continuation  *)
(* of the awaited Promise.all of a discovery pass.                         *)
(***************************************************************************)
EXTENDS Integers, Sequences, FiniteSets, TLC

\* ---------------------------------------------------------------- bounds

\* FocusedVault objects that still have a socket, a timer or the focus.
MaxVaults == 2
\* Longest tracesData a connection accumulates.
MaxTraces == 2
\* uuids handed out by crypto.randomUUID().
MaxSubscriptions == 2
\* Discovery passes awaiting their resolvers at the same time.
MaxChecks == 1

\* Vault keys the resolver can report.
Keys == {"A", "B"}
\* createdAt timestamps the resolver can report.
Times == {100, 200}
\* Trace payloads.
Traces == {"t1", "t2"}
\* vscode.workspace.workspaceFolders, when defined.
workspaceFolders == <<"r1", "r2">>

\* ----------------------------------------------------------------- state

VARIABLES
    focusedVault,               \* slot of the focused FocusedVault, 0 for null
    vaults,                     \* slot -> FocusedVault object still reachable
    lastVaultFoundTimestamp,
    vaultKeyPollingInterval,    \* TRUE while the field holds a timer handle
    intervals,                  \* setInterval timers armed
    focusedVaultSubscribers,    \* uuids in the Map
    batchTraceSubscribers,      \* uuids in the Map
    nextUuid,                   \* uuids issued so far
    checks,                     \* discovery passes awaiting Promise.all
    notified,                   \* listener calls made by the last turn
    turn,                       \* the event-loop turn that led here
    observed                    \* entries the completed passes were given

vars == <<focusedVault, vaults, lastVaultFoundTimestamp, vaultKeyPollingInterval, intervals,
          focusedVaultSubscribers, batchTraceSubscribers, nextUuid, checks,
          notified, turn, observed>>

\* ------------------------------------------------------------- turns

NoFrame == [kind |-> "none", data |-> <<>>]

\* A turn: the handler that ran, the FocusedVault slot and vault key it ran
\* for (0 and "" when it has none) and the frame it was handed.
Turn(op, slot, key, frame) == [op |-> op, slot |-> slot, key |-> key, frame |-> frame]

\* ------------------------------------------------------- listener fan-out

NoCall == [chan |-> "none", subs |-> {}, vault |-> 0, traces |-> <<>>]

\* focusedVaultSubscribers.forEach(subscriber => subscriber(this.focusedVault))
NotifyFocus(fv) ==
    [chan |-> "focus", subs |-> focusedVaultSubscribers, vault |-> fv, traces |-> <<>>]

\* The onBatchTrace closure handed to a FocusedVault:
\* batchTraceSubscribers.forEach(subscriber => subscriber(traces))
onBatchTrace(slot, traces) ==
    [chan |-> "batch", subs |-> batchTraceSubscribers, vault |-> slot, traces |-> traces]

\* ------------------------------------------------------ FocusedVault object

\* new FocusedVault(key, onBatchTrace, onClose): the constructor opens the socket.
\* delivered lists the object's onBatchTrace calls so far, each by the path
\* that made it ("immediate" or "throttled"); received tells whether a
\* 'message' event has been emitted, arrived holds the records of the frames
\* JSON.parse accepted, in arrival order; throttleTimers counts the armed
\* throttle setTimeouts (throttleTimeout is the handle field); handed holds
\* the records passed to onBatchTrace so far;
\* reconnectDelay is the delay the reconnect setTimeout was given.
NewFocusedVault(key, retries) ==
    [key |-> key, retries |-> retries, tracesData |-> <<>>, wsConnection |-> TRUE,
     sock |-> "open", closeCalled |-> FALSE, isFirst |-> TRUE,
     pendingTraces |-> <<>>, throttleTimeout |-> FALSE, reconnectTimer |-> FALSE,
     delivered |-> <<>>, received |-> FALSE, arrived |-> <<>>, handed |-> <<>>,
     throttleTimers |-> 0, reconnectDelay |-> 0]

\* wsConnection?.close(): ws starts the closing handshake; the 'close' event
\* is emitted later, and the handlers stay attached.
WsClose(v) ==
    IF v.wsConnection
    THEN [v EXCEPT !.closeCalled = TRUE,
                   !.sock = IF @ = "open" THEN "closing" ELSE @]
    ELSE v

\* An object nothing can reach any more: not focused, socket closed, no timer.
Reachable(vs, fv, s) ==
    \/ s = fv
    \/ vs[s].sock # "closed"
    \/ vs[s].throttleTimers > 0
    \/ vs[s].reconnectTimer

Collect(vs, fv) ==
    [s \in {t \in DOMAIN vs : Reachable(vs, fv, t)} |-> vs[s]]

FreeSlots(vs) == (1..MaxVaults) \ DOMAIN vs

NewSlot(vs) == CHOOSE s \in FreeSlots(vs) : \A t \in FreeSlots(vs) : s <= t

\* -------------------------------------------------------------------- Init

\* The constructor: startVaultKeyMonitoring() on a fresh object, i.e. dispose()
\* with nothing to stop, the first discovery pass begun, the interval armed.
NullEntry == [key |-> "", createdAt |-> 0]

NoResults == [r \in {} |-> NullEntry]

Init ==
    /\ focusedVault = 0
    /\ vaults = [s \in {} |-> NewFocusedVault("", 0)]
    /\ lastVaultFoundTimestamp = 0
    /\ vaultKeyPollingInterval = TRUE
    /\ intervals = 1
    /\ focusedVaultSubscribers = {}
    /\ batchTraceSubscribers = {}
    /\ nextUuid = 0
    /\ checks \in {<<>>, <<NoResults>>}
    /\ notified = NoCall
    /\ turn = Turn("constructor", 0, "", NoFrame)
    /\ observed = {}

\* ------------------------------------------------------------ subscribers

\* subscribeToFocusedVaultChange: a fresh uuid enters the Map.
subscribeToFocusedVaultChange ==
    /\ nextUuid < MaxSubscriptions
    /\ nextUuid' = nextUuid + 1
    /\ focusedVaultSubscribers' = focusedVaultSubscribers \cup {nextUuid + 1}
    /\ notified' = NoCall
    /\ turn' = Turn("subscribeToFocusedVaultChange", nextUuid + 1, "", NoFrame)
    /\ UNCHANGED <<focusedVault, vaults, lastVaultFoundTimestamp,
                   vaultKeyPollingInterval, intervals, batchTraceSubscribers, checks, observed>>

\* Mutant: the closure clears the Map.
unsubscribeFocusedVaultChangeAll(u) ==
    /\ u \in 1..nextUuid
    /\ focusedVaultSubscribers' = {}
    /\ notified' = NoCall
    /\ turn' = Turn("unsubscribeFocusedVaultChange", u, "", NoFrame)
    /\ UNCHANGED <<focusedVault, vaults, lastVaultFoundTimestamp,
                   vaultKeyPollingInterval, intervals, batchTraceSubscribers, nextUuid, checks, observed>>

\* The closure subscribeToFocusedVaultChange returned, called for uuid u.
unsubscribeFocusedVaultChange(u) ==
    /\ u \in 1..nextUuid
    /\ focusedVaultSubscribers' = focusedVaultSubscribers \ {u}
    /\ notified' = NoCall
    /\ turn' = Turn("unsubscribeFocusedVaultChange", u, "", NoFrame)
    /\ UNCHANGED <<focusedVault, vaults, lastVaultFoundTimestamp,
                   vaultKeyPollingInterval, intervals, batchTraceSubscribers, nextUuid, checks, observed>>

\* subscribeToBatchTrace
subscribeToBatchTrace ==
    /\ nextUuid < MaxSubscriptions
    /\ nextUuid' = nextUuid + 1
    /\ batchTraceSubscribers' = batchTraceSubscribers \cup {nextUuid + 1}
    /\ notified' = NoCall
    /\ turn' = Turn("subscribeToBatchTrace", nextUuid + 1, "", NoFrame)
    /\ UNCHANGED <<focusedVault, vaults, lastVaultFoundTimestamp,
                   vaultKeyPollingInterval, intervals, focusedVaultSubscribers, checks, observed>>

\* The closure subscribeToBatchTrace returned, called for uuid u.
unsubscribeBatchTrace(u) ==
    /\ u \in 1..nextUuid
    /\ batchTraceSubscribers' = batchTraceSubscribers \ {u}
    /\ notified' = NoCall
    /\ turn' = Turn("unsubscribeBatchTrace", u, "", NoFrame)
    /\ UNCHANGED <<focusedVault, vaults, lastVaultFoundTimestamp,
                   vaultKeyPollingInterval, intervals, focusedVaultSubscribers, nextUuid, checks, observed>>

\* ------------------------------------------------------------ accessors

\* getFocusedVault()
getFocusedVault == focusedVault

\* getFocusedVaultTraces(): this.focusedVault?.tracesData ?? []
getFocusedVaultTraces ==
    IF focusedVault = 0 THEN <<>> ELSE vaults[focusedVault].tracesData

\* ------------------------------------------------------ switchFocusedVault

\* Mutant: the listeners are called only when the focus changed.
switchFocusedVaultNotifyOnChange(vs, newFocusKey, retries) ==
    IF focusedVault = 0 \/ vs[focusedVault].key # newFocusKey
    THEN LET closed == IF focusedVault # 0
                       THEN [vs EXCEPT ![focusedVault] =
                                [WsClose(@) EXCEPT !.wsConnection = FALSE]]
                       ELSE vs
             kept == Collect(closed, 0)
         IN  /\ FreeSlots(kept) # {}
             /\ LET slot == NewSlot(kept)
                IN  /\ vaults' = [s \in DOMAIN kept \cup {slot} |->
                                    IF s = slot
                                    THEN NewFocusedVault(newFocusKey, retries)
                                    ELSE kept[s]]
                    /\ focusedVault' = slot
                    /\ notified' = NotifyFocus(slot)
    ELSE /\ vaults' = Collect(vs, focusedVault)
         /\ focusedVault' = focusedVault
         /\ notified' = NoCall

\* switchFocusedVault(newFocusKey, retries), run on the vault objects vs
\* (the caller may have touched them earlier in the same handler).
switchFocusedVault(vs, newFocusKey, retries) ==
    IF focusedVault = 0 \/ vs[focusedVault].key # newFocusKey
    THEN LET closed == IF focusedVault # 0
                       THEN [vs EXCEPT ![focusedVault] =
                                [WsClose(@) EXCEPT !.wsConnection = FALSE]]
                       ELSE vs
             kept == Collect(closed, 0)
         IN  /\ FreeSlots(kept) # {}
             /\ LET slot == NewSlot(kept)
                IN  /\ vaults' = [s \in DOMAIN kept \cup {slot} |->
                                    IF s = slot
                                    THEN NewFocusedVault(newFocusKey, retries)
                                    ELSE kept[s]]
                    /\ focusedVault' = slot
                    /\ notified' = NotifyFocus(slot)
    ELSE /\ vaults' = Collect(vs, focusedVault)
         /\ focusedVault' = focusedVault
         /\ notified' = NotifyFocus(focusedVault)

\* A caller outside the class uses the public method, retries defaulted to 0.
SwitchFocusedVaultCall(key) ==
    /\ switchFocusedVault(vaults, key, 0)
    /\ turn' = Turn("switchFocusedVault", 0, key, NoFrame)
    /\ UNCHANGED <<lastVaultFoundTimestamp, vaultKeyPollingInterval, intervals,
                   focusedVaultSubscribers, batchTraceSubscribers, nextUuid, checks, observed>>

\* ----------------------------------------------------------- discovery

\* The resolver's answers: a VaultHistoryEntry, or null.
Entries == [key : Keys, createdAt : Times]

\* checkVaultKeyAndUpdateConnection up to its await: nothing without
\* workspace folders, else one resolver call per folder is pending.
BeginCheck(cs, hasFolders) == IF hasFolders THEN Append(cs, NoResults) ELSE cs

CanBegin(hasFolders) == hasFolders => Len(checks) < MaxChecks

\* Mutant: the focus is dropped without closing its socket.
DisposeVaultsNoClose ==
    IF focusedVault = 0 THEN vaults ELSE Collect(vaults, 0)

\* dispose()
DisposeVaults ==
    IF focusedVault = 0 THEN vaults
    ELSE Collect([vaults EXCEPT ![focusedVault] = WsClose(@)], 0)

\* clearInterval(this.vaultKeyPollingInterval), when the field holds a handle.
ClearInterval == IF vaultKeyPollingInterval THEN intervals - 1 ELSE intervals

dispose ==
    /\ vaultKeyPollingInterval' = FALSE
    /\ intervals' = ClearInterval
    /\ vaults' = DisposeVaults
    /\ focusedVault' = 0
    /\ notified' = NoCall
    /\ turn' = Turn("dispose", focusedVault, "", NoFrame)
    /\ UNCHANGED <<lastVaultFoundTimestamp, focusedVaultSubscribers,
                   batchTraceSubscribers, nextUuid, checks, observed>>

\* Mutant: the running monitoring is not stopped first.
startVaultKeyMonitoringNoDispose(hasFolders) ==
    /\ CanBegin(hasFolders)
    /\ checks' = BeginCheck(checks, hasFolders)
    /\ vaultKeyPollingInterval' = TRUE
    /\ intervals' = intervals + 1
    /\ notified' = NoCall
    /\ turn' = Turn("startVaultKeyMonitoring", focusedVault, "", NoFrame)
    /\ UNCHANGED <<focusedVault, vaults, lastVaultFoundTimestamp,
                   focusedVaultSubscribers, batchTraceSubscribers, nextUuid, observed>>

\* startVaultKeyMonitoring(): dispose, begin a pass, arm the interval.
startVaultKeyMonitoring(hasFolders) ==
    /\ CanBegin(hasFolders)
    /\ vaults' = DisposeVaults
    /\ focusedVault' = 0
    /\ checks' = BeginCheck(checks, hasFolders)
    /\ vaultKeyPollingInterval' = TRUE
    /\ intervals' = ClearInterval + 1
    /\ notified' = NoCall
    /\ turn' = Turn("startVaultKeyMonitoring", focusedVault, "", NoFrame)
    /\ UNCHANGED <<lastVaultFoundTimestamp, focusedVaultSubscribers,
                   batchTraceSubscribers, nextUuid, observed>>

\* The setInterval callback.
PollingTick(hasFolders) ==
    /\ intervals > 0
    /\ CanBegin(hasFolders)
    /\ checks' = BeginCheck(checks, hasFolders)
    /\ notified' = NoCall
    /\ turn' = Turn("PollingTick", 0, "", NoFrame)
    /\ UNCHANGED <<focusedVault, vaults, lastVaultFoundTimestamp,
                   vaultKeyPollingInterval, intervals, focusedVaultSubscribers,
                   batchTraceSubscribers, nextUuid, observed>>

\* getCurrentLocalVaultKey(folder) of pass i settles for folder r, with e.
ResolveFolder(i, r, e) ==
    /\ i \in 1..Len(checks)
    /\ r \in (1..Len(workspaceFolders)) \ DOMAIN checks[i]
    /\ checks' = [checks EXCEPT ![i] =
                     [q \in DOMAIN checks[i] \cup {r} |->
                         IF q = r THEN e ELSE checks[i][q]]]
    /\ notified' = NoCall
    /\ turn' = Turn("ResolveFolder", 0, "", NoFrame)
    /\ UNCHANGED <<focusedVault, vaults, lastVaultFoundTimestamp,
                   vaultKeyPollingInterval, intervals, focusedVaultSubscribers,
                   batchTraceSubscribers, nextUuid, observed>>

RECURSIVE InsertByRecency(_, _)
\* x goes behind every entry that is at least as recent (the sort is stable).
InsertByRecency(x, s) ==
    IF s = <<>> THEN <<x>>
    ELSE IF Head(s).createdAt - x.createdAt >= 0
         THEN <<Head(s)>> \o InsertByRecency(x, Tail(s))
         ELSE <<x>> \o s

RECURSIVE SortByRecency(_)
\* vaults.sort((a, b) => b.createdAt - a.createdAt)
SortByRecency(s) ==
    IF s = <<>> THEN <<>>
    ELSE InsertByRecency(s[Len(s)], SortByRecency(SubSeq(s, 1, Len(s) - 1)))

\* Mutant: the sort is left out.
mostRecentVaultUnsorted(results) ==
    LET all == [r \in 1..Len(workspaceFolders) |-> results[r]]
        found == SelectSeq(all, LAMBDA v : v # NullEntry)
    IN  IF found = <<>> THEN NullEntry ELSE found[1]

\* Promise.all keeps the folders' order; nulls are filtered out; vaults[0].
mostRecentVault(results) ==
    LET all == [r \in 1..Len(workspaceFolders) |-> results[r]]
        found == SelectSeq(all, LAMBDA v : v # NullEntry)
        sorted == SortByRecency(found)
    IN  IF sorted = <<>> THEN NullEntry ELSE sorted[1]

RemoveAt(s, i) == SubSeq(s, 1, i - 1) \o SubSeq(s, i + 1, Len(s))

\* Mutant: the timestamp is not compared.
IsNewerAnyFound(v) == v # NullEntry

\* Mutant: the null test is inverted.
IsNewerOrNull(v) == v = NullEntry \/ v.createdAt > lastVaultFoundTimestamp

\* The timestamp guard of checkVaultKeyAndUpdateConnection.
IsNewer(v) == v # NullEntry /\ v.createdAt > lastVaultFoundTimestamp

\* The continuation of pass i once every resolver has settled.
CheckContinuation(i) ==
    /\ i \in 1..Len(checks)
    /\ DOMAIN checks[i] = 1..Len(workspaceFolders)
    /\ checks' = RemoveAt(checks, i)
    /\ turn' = Turn("CheckContinuation", 0, mostRecentVault(checks[i]).key, NoFrame)
    /\ LET v == mostRecentVault(checks[i])
       IN  IF IsNewer(v)
           THEN /\ lastVaultFoundTimestamp' = v.createdAt
                /\ switchFocusedVault(vaults, v.key, 0)
           ELSE /\ notified' = NoCall
                /\ UNCHANGED <<focusedVault, vaults, lastVaultFoundTimestamp>>
    /\ observed' = observed \cup ({checks[i][r] : r \in DOMAIN checks[i]} \ {NullEntry})
    /\ UNCHANGED <<vaultKeyPollingInterval, intervals, focusedVaultSubscribers,
                   batchTraceSubscribers, nextUuid>>

\* ------------------------------------------------------- stream handlers

RECURSIVE SeqsUpTo(_)
SeqsUpTo(n) ==
    IF n = 0 THEN {<<>>}
    ELSE SeqsUpTo(n - 1) \cup
         {Append(q, t) : q \in {x \in SeqsUpTo(n - 1) : Len(x) = n - 1}, t \in Traces}

\* What JSON.parse makes of a frame: it throws ("bad"), or yields one Trace
\* ("single", data = <<t>>), or an array of Traces ("array").
Frames ==
    {[kind |-> "bad", data |-> <<>>]}
    \cup {[kind |-> "single", data |-> <<t>>] : t \in Traces}
    \cup {[kind |-> "array", data |-> q] : q \in SeqsUpTo(MaxTraces)}

\* Mutant: the new traces go in front.
queueTracesInFront(v, traces) ==
    [v EXCEPT !.pendingTraces = traces \o @,
              !.throttleTimeout = IF ~@ THEN TRUE ELSE @,
              !.throttleTimers = IF ~v.throttleTimeout THEN @ + 1 ELSE @]

\* Mutant: a timer is set at every call.
queueTracesAlwaysArm(v, traces) ==
    [v EXCEPT !.pendingTraces = @ \o traces,
              !.throttleTimeout = TRUE,
              !.throttleTimers = @ + 1]

\* queueTracesForSending
queueTracesForSending(v, traces) ==
    [v EXCEPT !.pendingTraces = @ \o traces,
              !.throttleTimeout = IF ~@ THEN TRUE ELSE @,
              !.throttleTimers = IF ~v.throttleTimeout THEN @ + 1 ELSE @]

\* Mutant: only the first record is sent.
sendFirstTraceImmediately(slot, traces) ==
    IF Len(traces) > 0 THEN onBatchTrace(slot, <<traces[1]>>) ELSE NoCall

\* sendTracesImmediately: the listener calls it makes.
sendTracesImmediately(slot, traces) ==
    IF Len(traces) > 0 THEN onBatchTrace(slot, traces) ELSE NoCall

\* Mutant: isFirst is cleared by arrays only.
MessageVaultFirstArray(v, frame) ==
    CASE frame.kind = "bad" -> [v EXCEPT !.received = TRUE]
      [] frame.kind = "array" /\ v.isFirst ->
            [v EXCEPT !.tracesData = frame.data, !.isFirst = FALSE,
                      !.delivered = IF Len(frame.data) > 0
                                    THEN Append(@, "immediate") ELSE @,
                      !.received = TRUE, !.arrived = @ \o frame.data,
                      !.handed = @ \o frame.data]
      [] frame.kind = "array" /\ ~v.isFirst ->
            [queueTracesForSending(v, frame.data)
                EXCEPT !.tracesData = @ \o frame.data, !.isFirst = FALSE,
                       !.received = TRUE, !.arrived = @ \o frame.data]
      [] frame.kind = "single" ->
            [queueTracesForSending(v, frame.data)
                EXCEPT !.tracesData = @ \o frame.data,
                       !.received = TRUE, !.arrived = @ \o frame.data]

\* Mutant: a frame that fails to parse is queued as an empty batch.
MessageVaultBadAsEmpty(v, frame) ==
    CASE frame.kind = "bad" ->
            [queueTracesForSending(v, <<>>) EXCEPT !.received = TRUE]
      [] frame.kind = "array" /\ v.isFirst ->
            [v EXCEPT !.tracesData = frame.data, !.isFirst = FALSE,
                      !.delivered = IF Len(frame.data) > 0
                                    THEN Append(@, "immediate") ELSE @,
                      !.received = TRUE, !.arrived = @ \o frame.data,
                      !.handed = @ \o frame.data]
      [] frame.kind = "array" /\ ~v.isFirst ->
            [queueTracesForSending(v, frame.data)
                EXCEPT !.tracesData = @ \o frame.data, !.isFirst = FALSE,
                       !.received = TRUE, !.arrived = @ \o frame.data]
      [] frame.kind = "single" ->
            [queueTracesForSending(v, frame.data)
                EXCEPT !.tracesData = @ \o frame.data, !.isFirst = FALSE,
                       !.received = TRUE, !.arrived = @ \o frame.data]

\* Mutant: a later array replaces tracesData as the first one does.
MessageVaultReplace(v, frame) ==
    CASE frame.kind = "bad" -> [v EXCEPT !.received = TRUE]
      [] frame.kind = "array" /\ v.isFirst ->
            [v EXCEPT !.tracesData = frame.data, !.isFirst = FALSE,
                      !.delivered = IF Len(frame.data) > 0
                                    THEN Append(@, "immediate") ELSE @,
                      !.received = TRUE, !.arrived = @ \o frame.data,
                      !.handed = @ \o frame.data]
      [] frame.kind = "array" /\ ~v.isFirst ->
            [queueTracesForSending(v, frame.data)
                EXCEPT !.tracesData = frame.data, !.isFirst = FALSE,
                       !.received = TRUE, !.arrived = @ \o frame.data]
      [] frame.kind = "single" ->
            [queueTracesForSending(v, frame.data)
                EXCEPT !.tracesData = @ \o frame.data, !.isFirst = FALSE,
                       !.received = TRUE, !.arrived = @ \o frame.data]

\* The 'message' handler's effect on the FocusedVault object.
MessageVault(v, frame) ==
    CASE frame.kind = "bad" -> [v EXCEPT !.received = TRUE]
      [] frame.kind = "array" /\ v.isFirst ->
            [v EXCEPT !.tracesData = frame.data, !.isFirst = FALSE,
                      !.delivered = IF Len(frame.data) > 0
                                    THEN Append(@, "immediate") ELSE @,
                      !.received = TRUE, !.arrived = @ \o frame.data,
                      !.handed = @ \o frame.data]
      [] frame.kind = "array" /\ ~v.isFirst ->
            [queueTracesForSending(v, frame.data)
                EXCEPT !.tracesData = @ \o frame.data, !.isFirst = FALSE,
                       !.received = TRUE, !.arrived = @ \o frame.data]
      [] frame.kind = "single" ->
            [queueTracesForSending(v, frame.data)
                EXCEPT !.tracesData = @ \o frame.data, !.isFirst = FALSE,
                       !.received = TRUE, !.arrived = @ \o frame.data]

\* The listener calls the 'message' handler makes before it returns.
MessageCalls(slot, v, frame) ==
    IF frame.kind = "array" /\ v.isFirst
    THEN sendTracesImmediately(slot, frame.data)
    ELSE NoCall

\* wsConnection.on('message'): ws delivers frames until the peer's close
\* frame, so also after close() was called on this side.
OnMessage(s, frame) ==
    /\ s \in DOMAIN vaults
    /\ vaults[s].sock \in {"open", "closing"}
    /\ Len(MessageVault(vaults[s], frame).tracesData) <= MaxTraces
    /\ vaults' = [vaults EXCEPT ![s] = MessageVault(@, frame)]
    /\ notified' = MessageCalls(s, vaults[s], frame)
    /\ turn' = Turn("OnMessage", s, vaults[s].key, frame)
    /\ UNCHANGED <<focusedVault, lastVaultFoundTimestamp, vaultKeyPollingInterval, intervals,
                   focusedVaultSubscribers, batchTraceSubscribers, nextUuid, checks, observed>>

\* sendPendingTraces: the object after the flush.
sendPendingTraces(v) ==
    [v EXCEPT !.pendingTraces = <<>>, !.throttleTimeout = FALSE,
              !.throttleTimers = @ - 1,
              !.handed = @ \o v.pendingTraces,
              !.delivered = IF Len(v.pendingTraces) > 0
                            THEN Append(@, "throttled") ELSE @]

\* sendPendingTraces: the listener calls it makes.
PendingCalls(slot, v) ==
    IF Len(v.pendingTraces) > 0 THEN onBatchTrace(slot, v.pendingTraces) ELSE NoCall

\* The throttle setTimeout fires.
ThrottleFire(s) ==
    /\ s \in DOMAIN vaults
    /\ vaults[s].throttleTimers > 0
    /\ vaults' = Collect([vaults EXCEPT ![s] = sendPendingTraces(@)], focusedVault)
    /\ notified' = PendingCalls(s, vaults[s])
    /\ turn' = Turn("ThrottleFire", s, vaults[s].key, NoFrame)
    /\ UNCHANGED <<focusedVault, lastVaultFoundTimestamp, vaultKeyPollingInterval, intervals,
                   focusedVaultSubscribers, batchTraceSubscribers, nextUuid, checks, observed>>

\* wsConnection.on('close'): after a server close, a transport error (ws
\* emits 'error', whose handler only logs, then 'close') or this side's close().
\* onClose() arms the reconnect setTimeout.
\* The delay of the reconnect setTimeout: Math.pow(2, (retries + 1)) + 100
Backoff(retries) == 2 ^ (retries + 1) + 100

CloseVault(v) ==
    [v EXCEPT !.sock = "closed", !.wsConnection = FALSE, !.reconnectTimer = TRUE,
              !.reconnectDelay = Backoff(v.retries)]

OnClose(s) ==
    /\ s \in DOMAIN vaults
    /\ vaults[s].sock \in {"open", "closing"}
    /\ vaults' = [vaults EXCEPT ![s] = CloseVault(@)]
    /\ notified' = NoCall
    /\ turn' = Turn("OnClose", s, vaults[s].key, NoFrame)
    /\ UNCHANGED <<focusedVault, lastVaultFoundTimestamp, vaultKeyPollingInterval, intervals,
                   focusedVaultSubscribers, batchTraceSubscribers, nextUuid, checks, observed>>

\* Mutant: the key is not compared.
StillFocusedAnyKey(vs, newFocusKey) == focusedVault # 0

\* The guard of the reconnect closure: this.focusedVault?.key === newFocusKey
StillFocused(vs, newFocusKey) ==
    focusedVault # 0 /\ vs[focusedVault].key = newFocusKey

\* The reconnect setTimeout of the object in slot s fires.
ReconnectFire(s) ==
    /\ s \in DOMAIN vaults
    /\ vaults[s].reconnectTimer
    /\ turn' = Turn("ReconnectFire", s, vaults[s].key, NoFrame)
    /\ LET vs == [vaults EXCEPT ![s].reconnectTimer = FALSE]
       IN  IF StillFocused(vs, vs[s].key)
           THEN switchFocusedVault(vs, vs[s].key, vs[s].retries + 1)
           ELSE /\ vaults' = Collect(vs, focusedVault)
                /\ notified' = NoCall
                /\ UNCHANGED focusedVault
    /\ UNCHANGED <<lastVaultFoundTimestamp, vaultKeyPollingInterval, intervals,
                   focusedVaultSubscribers, batchTraceSubscribers, nextUuid, checks, observed>>

\* ------------------------------------------------------------------- Next

Next ==
    \/ subscribeToFocusedVaultChange
    \/ subscribeToBatchTrace
    \/ \E u \in 1..MaxSubscriptions : unsubscribeFocusedVaultChange(u)
    \/ \E u \in 1..MaxSubscriptions : unsubscribeBatchTrace(u)
    \/ \E h \in BOOLEAN : startVaultKeyMonitoring(h)
    \/ dispose
    \/ \E h \in BOOLEAN : PollingTick(h)
    \/ \E i \in 1..MaxChecks, r \in 1..Len(workspaceFolders),
          e \in Entries \cup {NullEntry} : ResolveFolder(i, r, e)
    \/ \E i \in 1..MaxChecks : CheckContinuation(i)
    \/ \E k \in Keys : SwitchFocusedVaultCall(k)
    \/ \E s \in 1..MaxVaults, f \in Frames : OnMessage(s, f)
    \/ \E s \in 1..MaxVaults : ThrottleFire(s)
    \/ \E s \in 1..MaxVaults : OnClose(s)
    \/ \E s \in 1..MaxVaults : ReconnectFire(s)

Spec == Init /\ [][Next]_vars

\* ------------------------------------------------- partial environments

\* The manager left to itself after construction: polling, resolver answers,
\* socket closures and reconnect timers; the server sends no frames.
NextDiscovery ==
    \/ subscribeToFocusedVaultChange
    \/ \E h \in BOOLEAN : PollingTick(h)
    \/ \E i \in 1..MaxChecks, r \in 1..Len(workspaceFolders),
          e \in Entries \cup {NullEntry} : ResolveFolder(i, r, e)
    \/ \E i \in 1..MaxChecks : CheckContinuation(i)
    \/ \E s \in 1..MaxVaults : OnClose(s)
    \/ \E s \in 1..MaxVaults : ReconnectFire(s)

SpecDiscovery == Init /\ [][NextDiscovery]_vars

\* Focus switches, stop and restart, socket closures and reconnect timers,
\* with focus-change listeners coming and going; no frames, no resolver.
NextReconnect ==
    \/ subscribeToFocusedVaultChange
    \/ \E u \in 1..MaxSubscriptions : unsubscribeFocusedVaultChange(u)
    \/ startVaultKeyMonitoring(FALSE)
    \/ dispose
    \/ \E k \in Keys : SwitchFocusedVaultCall(k)
    \/ \E s \in 1..MaxVaults : OnClose(s)
    \/ \E s \in 1..MaxVaults : ReconnectFire(s)

SpecReconnect == Init /\ [][NextReconnect]_vars

\* Connections one at a time: a vault is focused only once the objects of
\* the previous one are gone; every frame, flush, closure and reconnect
\* timer, with listeners of both registries coming and going.
NextStream ==
    \/ subscribeToFocusedVaultChange
    \/ subscribeToBatchTrace
    \/ \E u \in 1..MaxSubscriptions : unsubscribeFocusedVaultChange(u)
    \/ \E u \in 1..MaxSubscriptions : unsubscribeBatchTrace(u)
    \/ dispose
    \/ \E k \in Keys : DOMAIN vaults = {} /\ SwitchFocusedVaultCall(k)
    \/ \E s \in 1..MaxVaults, f \in Frames : OnMessage(s, f)
    \/ \E s \in 1..MaxVaults : ThrottleFire(s)
    \/ \E s \in 1..MaxVaults : OnClose(s)
    \/ \E s \in 1..MaxVaults : ReconnectFire(s)

SpecStream == Init /\ [][NextStream]_vars

\* Frames whose payload is the one record "t1".
OneRecordFrames == {f \in Frames : f.kind # "bad" /\ f.data = <<"t1">>}

\* Focus switches and stop while the timers of the superseded connections
\* are still under way, with batch listeners subscribing; the server's
\* frames reach a socket only while it is open.
NextSwitch ==
    \/ subscribeToBatchTrace
    \/ dispose
    \/ \E k \in Keys : SwitchFocusedVaultCall(k)
    \/ \E s \in 1..MaxVaults, f \in OneRecordFrames :
          s \in DOMAIN vaults /\ vaults[s].sock = "open" /\ OnMessage(s, f)
    \/ \E s \in 1..MaxVaults : ThrottleFire(s)
    \/ \E s \in 1..MaxVaults : OnClose(s)
    \/ \E s \in 1..MaxVaults : ReconnectFire(s)

SpecSwitch == Init /\ [][NextSwitch]_vars

\* Connections one at a time, one-record frames, listeners subscribing,
\* and a resolver that finds no vault in any folder.
NextEmptyPolls ==
    \/ subscribeToFocusedVaultChange
    \/ subscribeToBatchTrace
    \/ \E k \in Keys : DOMAIN vaults = {} /\ SwitchFocusedVaultCall(k)
    \/ \E h \in BOOLEAN : PollingTick(h)
    \/ \E i \in 1..MaxChecks, r \in 1..Len(workspaceFolders) :
          ResolveFolder(i, r, NullEntry)
    \/ \E i \in 1..MaxChecks : CheckContinuation(i)
    \/ \E s \in 1..MaxVaults, f \in OneRecordFrames : OnMessage(s, f)
    \/ \E s \in 1..MaxVaults : ThrottleFire(s)
    \/ \E s \in 1..MaxVaults : OnClose(s)
    \/ \E s \in 1..MaxVaults : ReconnectFire(s)

SpecEmptyPolls == Init /\ [][NextEmptyPolls]_vars

\* A resolver that knows vault A, created at 100, and vault B, created at 200.
KnownVaults == {e \in Entries : e.key = "A" <=> e.createdAt = 100}

\* Monitoring stopped and started again while passes are in flight and
\* sockets close: start, stop, polling, the answers of a resolver whose
\* vaults do not change, socket closures and reconnect timers; no
\* listeners, no frames.
NextRestart ==
    \/ \E h \in BOOLEAN : startVaultKeyMonitoring(h)
    \/ dispose
    \/ \E h \in BOOLEAN : PollingTick(h)
    \/ \E i \in 1..MaxChecks, r \in 1..Len(workspaceFolders),
          e \in KnownVaults \cup {NullEntry} : ResolveFolder(i, r, e)
    \/ \E i \in 1..MaxChecks : CheckContinuation(i)
    \/ \E s \in 1..MaxVaults : OnClose(s)
    \/ \E s \in 1..MaxVaults : ReconnectFire(s)

SpecRestart == Init /\ [][NextRestart]_vars

\* Focus switches asked for from outside, to the focused key and to
\* another, once the objects of the connections before the focused one are
\* gone; the focused connection receives one-record frames while open;
\* flushes, closures and reconnect timers; focus listeners subscribing.
NextSelect ==
    \/ subscribeToFocusedVaultChange
    \/ \E k \in Keys : DOMAIN vaults \subseteq {focusedVault} /\ SwitchFocusedVaultCall(k)
    \/ \E f \in OneRecordFrames :
          /\ focusedVault # 0
          /\ vaults[focusedVault].sock = "open"
          /\ OnMessage(focusedVault, f)
    \/ \E s \in 1..MaxVaults : ThrottleFire(s)
    \/ \E s \in 1..MaxVaults : OnClose(s)
    \/ \E s \in 1..MaxVaults : ReconnectFire(s)

SpecSelect == Init /\ [][NextSelect]_vars

\* One connection at a time with every frame, flush, closure and reconnect
\* timer, stop, and batch listeners subscribing; a throttle timer that is
\* armed fires in the end.
NextBatcher ==
    \/ subscribeToBatchTrace
    \/ dispose
    \/ \E k \in Keys : DOMAIN vaults = {} /\ SwitchFocusedVaultCall(k)
    \/ \E s \in 1..MaxVaults, f \in Frames : OnMessage(s, f)
    \/ \E s \in 1..MaxVaults : ThrottleFire(s)
    \/ \E s \in 1..MaxVaults : OnClose(s)
    \/ \E s \in 1..MaxVaults : ReconnectFire(s)

FairBatcher ==
    Init /\ [][NextBatcher]_vars /\ \A s \in 1..MaxVaults : WF_vars(ThrottleFire(s))

\* ------------------------------------------------------------------ claims

\* The key of the focused vault, "" when none is focused.
FocusKey == IF focusedVault = 0 THEN "" ELSE vaults[focusedVault].key

\* C1: when the reconnect timer armed by the unexpected closure of the
\* focused vault's connection fires, with the focus unchanged and no stop in
\* between, the focused vault has a live connection to the same key again.
C1_ReconnectReopens ==
    [][(/\ turn'.op = "ReconnectFire"
        /\ turn'.slot = focusedVault
        /\ ~vaults[focusedVault].closeCalled)
       => (/\ focusedVault' # 0
           /\ vaults'[focusedVault'].key = turn'.key
           /\ vaults'[focusedVault'].wsConnection)]_vars

\* The entries of the greatest createdAt among those observed.
MostRecentObserved == {e \in observed : \A d \in observed : d.createdAt <= e.createdAt}

\* C2: once a pass has reported an entry, the focused key is the key of an
\* entry of the greatest createdAt observed so far, lastVaultFoundTimestamp
\* is that createdAt, and lastVaultFoundTimestamp never decreases.
C2_FocusIsMostRecent ==
    [][/\ observed' # {} =>
            /\ focusedVault' # 0
            /\ \E e \in MostRecentObserved' :
                  /\ vaults'[focusedVault'].key = e.key
                  /\ lastVaultFoundTimestamp' = e.createdAt
       /\ lastVaultFoundTimestamp' >= lastVaultFoundTimestamp]_vars

\* An older entry was reported again by the pass that just completed, and
\* the focus stayed on the most recent one.
C2_Witness ==
    /\ turn.op = "CheckContinuation"
    /\ turn.key = "A"
    /\ notified.chan = "none"
    /\ [key |-> "A", createdAt |-> 100] \in observed
    /\ [key |-> "B", createdAt |-> 200] \in observed
    /\ FocusKey = "B"
    /\ lastVaultFoundTimestamp = 200

\* C3: the focused key changes only in the continuation of a pass all of
\* whose folders have resolved, never when one folder resolves, and then to
\* the key of an entry of the greatest createdAt among that pass's results;
\* the pass is gone afterwards, so it switches at most once.
C3_OneSwitchToMostRecent ==
    [][(FocusKey' # FocusKey \/ notified'.chan = "focus" \/ lastVaultFoundTimestamp' # lastVaultFoundTimestamp)
       => (\/ turn'.op = "ReconnectFire" /\ FocusKey' = FocusKey
              /\ lastVaultFoundTimestamp' = lastVaultFoundTimestamp
           \/ /\ turn'.op = "CheckContinuation"
              /\ \E i \in 1..Len(checks) :
                    /\ DOMAIN checks[i] = 1..Len(workspaceFolders)
                    /\ checks' = RemoveAt(checks, i)
                    /\ \E r \in DOMAIN checks[i] :
                          /\ checks[i][r] # NullEntry
                          /\ FocusKey' = checks[i][r].key
                          /\ lastVaultFoundTimestamp' = checks[i][r].createdAt
                    /\ \A r \in DOMAIN checks[i] :
                          checks[i][r].createdAt <= lastVaultFoundTimestamp')]_vars

\* The first pass found A (100) and B (200) and the focus went to B.
C3_Witness ==
    /\ turn.op = "CheckContinuation"
    /\ notified.chan = "focus"
    /\ observed = {[key |-> "A", createdAt |-> 100], [key |-> "B", createdAt |-> 200]}
    /\ FocusKey = "B"
    /\ DOMAIN vaults = {1}
    /\ lastVaultFoundTimestamp = 200

\* C4: a reconnect timer that fires while no vault is focused, or while the
\* focused key differs from the key of the connection that armed it, opens
\* no connection, leaves the focused vault as it is and calls no listener.
C4_StaleReconnectIsNoOp ==
    [][(/\ turn'.op = "ReconnectFire"
        /\ FocusKey # turn'.key)
       => (/\ focusedVault' = focusedVault
           /\ notified' = NoCall
           /\ \A t \in DOMAIN vaults' :
                 /\ t \in DOMAIN vaults
                 /\ vaults'[t] = [vaults[t] EXCEPT !.reconnectTimer =
                                     IF t = turn'.slot THEN FALSE ELSE @])]_vars

\* The timer of a connection closed by a focus switch fired under the other
\* focus, with a focus listener registered.
C4_Witness ==
    /\ turn.op = "ReconnectFire"
    /\ focusedVault # 0
    /\ FocusKey # turn.key
    /\ focusedVaultSubscribers # {}
    /\ notified = NoCall

\* C5: no batch listener is called by the throttle timer of a connection on
\* which close() has been called.
C5_NoFlushAfterClose ==
    [][(turn'.op = "ThrottleFire" /\ notified'.chan = "batch" /\ notified'.subs # {})
       => ~vaults[turn'.slot].closeCalled]_vars

\* The fan-out to the batch listeners, with the traces handed over.
BatchCall(slot, traces) ==
    [chan |-> "batch", subs |-> batchTraceSubscribers, vault |-> slot, traces |-> traces]

\* The frame of this turn is handed to queueTracesForSending.
IsIncrement(v, frame) ==
    frame.kind = "single" \/ (frame.kind = "array" /\ ~v.isFirst)

\* C6 (as amended): an enqueue appends its records to pendingTraces, leaves
\* the throttle timer armed and calls no listener; an unarmed timer means an
\* empty buffer, so the buffer is the concatenation of the window's enqueues;
\* the timer's firing calls the batch listeners once with the whole buffer
\* when it is not empty and not at all when it is empty, and empties and
\* disarms.
C6_Batching ==
    [][\A s \in DOMAIN vaults :
        /\ ~vaults[s].throttleTimeout => vaults[s].pendingTraces = <<>>
        /\ (turn'.op = "OnMessage" /\ turn'.slot = s
                /\ IsIncrement(vaults[s], turn'.frame))
           => /\ vaults'[s].pendingTraces = vaults[s].pendingTraces \o turn'.frame.data
              /\ vaults'[s].throttleTimeout
              /\ vaults'[s].delivered = vaults[s].delivered
              /\ notified' = NoCall
        /\ (turn'.op = "ThrottleFire" /\ turn'.slot = s)
           => /\ vaults[s].throttleTimeout
              /\ notified' = IF vaults[s].pendingTraces # <<>>
                             THEN BatchCall(s, vaults[s].pendingTraces)
                             ELSE NoCall
              /\ s \in DOMAIN vaults' =>
                    /\ vaults'[s].pendingTraces = <<>>
                    /\ ~vaults'[s].throttleTimeout
                    /\ vaults'[s].delivered =
                          IF vaults[s].pendingTraces # <<>>
                          THEN Append(vaults[s].delivered, "throttled")
                          ELSE vaults[s].delivered]_vars

\* Two records enqueued in one window reached a batch listener in one call.
C6_Witness ==
    /\ turn.op = "ThrottleFire"
    /\ notified.chan = "batch"
    /\ notified.subs # {}
    /\ notified.traces = <<"t2", "t1">>
    /\ turn.slot \in DOMAIN vaults
    /\ vaults[turn.slot].tracesData = <<"t2", "t1">>
    /\ vaults[turn.slot].delivered = <<"throttled">>

\* C6 as claimed: the timer is armed by an enqueue only, so every firing
\* ends a window of N >= 1 enqueues, and calls the listeners.
C6_EveryWindowFlushes ==
    [][turn'.op = "ThrottleFire" => notified'.chan = "batch"]_vars

\* The frame of this turn is taken as the initial backlog.
IsBacklog(v, frame) == frame.kind = "array" /\ v.isFirst

\* C7 (as amended): a first frame that is a sequence S becomes tracesData,
\* reaches the batch listeners in that turn, once, when S is not empty and
\* not at all when S is empty, and leaves buffer and timer untouched; a
\* single record r that follows is buffered alone with the timer armed, and
\* the timer's firing hands <<r>> to the listeners.
C7_BacklogImmediate ==
    [][\A s \in DOMAIN vaults :
        /\ (turn'.op = "OnMessage" /\ turn'.slot = s /\ IsBacklog(vaults[s], turn'.frame))
           => /\ vaults'[s].tracesData = turn'.frame.data
              /\ notified' = IF turn'.frame.data # <<>>
                             THEN BatchCall(s, turn'.frame.data)
                             ELSE NoCall
              /\ Len(vaults'[s].delivered) = IF turn'.frame.data # <<>> THEN 1 ELSE 0
              /\ vaults[s].pendingTraces = <<>> /\ ~vaults[s].throttleTimeout
              /\ vaults'[s].pendingTraces = <<>> /\ ~vaults'[s].throttleTimeout
        /\ (turn'.op = "OnMessage" /\ turn'.slot = s /\ turn'.frame.kind = "single"
                /\ ~vaults[s].isFirst /\ ~vaults[s].throttleTimeout)
           => /\ vaults'[s].tracesData = vaults[s].tracesData \o turn'.frame.data
              /\ vaults'[s].pendingTraces = turn'.frame.data
              /\ vaults'[s].throttleTimeout
              /\ notified' = NoCall
        /\ (turn'.op = "ThrottleFire" /\ turn'.slot = s /\ Len(vaults[s].pendingTraces) = 1)
           => notified' = BatchCall(s, vaults[s].pendingTraces)]_vars

\* The backlog <<t1, t2>> has just reached a batch listener.
C7_Witness ==
    /\ turn.op = "OnMessage"
    /\ turn.frame = [kind |-> "array", data |-> <<"t1", "t2">>]
    /\ notified.chan = "batch"
    /\ notified.subs # {}
    /\ notified.traces = <<"t1", "t2">>
    /\ vaults[turn.slot].tracesData = <<"t1", "t2">>
    /\ vaults[turn.slot].delivered = <<"immediate">>

\* C7 as claimed: every backlog, of any length, is handed to the listeners.
C7_BacklogAlwaysDelivered ==
    [][\A s \in DOMAIN vaults :
        (turn'.op = "OnMessage" /\ turn'.slot = s /\ IsBacklog(vaults[s], turn'.frame))
        => notified' = BatchCall(s, turn'.frame.data)]_vars

\* C8: among the onBatchTrace calls of a connection the immediate one comes
\* at most once, and first.
C8_BacklogFirst ==
    \A s \in DOMAIN vaults :
        \A n \in 1..Len(vaults[s].delivered) :
            vaults[s].delivered[n] = "immediate" => n = 1

\* A connection delivered its backlog and then a batch.
C8_Witness ==
    \E s \in DOMAIN vaults : vaults[s].delivered = <<"immediate", "throttled">>

\* C9: a listener that has unsubscribed is in no registry and in no fan-out
\* ever after; a fan-out reaches the listeners of its own registry only;
\* an unsubscribe removes its own uuid from its own registry and nothing
\* else, also when called again.
C9_Unsubscribed ==
    [][/\ \A u \in 1..nextUuid :
            u \notin focusedVaultSubscribers \cup batchTraceSubscribers
            => /\ u \notin focusedVaultSubscribers' \cup batchTraceSubscribers'
               /\ u \notin notified'.subs
       /\ notified'.chan = "focus" => notified'.subs = focusedVaultSubscribers
       /\ notified'.chan = "batch" => notified'.subs = batchTraceSubscribers
       /\ turn'.op = "unsubscribeFocusedVaultChange"
            => /\ focusedVaultSubscribers' = focusedVaultSubscribers \ {turn'.slot}
               /\ batchTraceSubscribers' = batchTraceSubscribers
       /\ turn'.op = "unsubscribeBatchTrace"
            => /\ batchTraceSubscribers' = batchTraceSubscribers \ {turn'.slot}
               /\ focusedVaultSubscribers' = focusedVaultSubscribers]_vars

\* Listener 1 has unsubscribed; a batch then reached listener 2 alone.
C9_Witness ==
    /\ nextUuid = 2
    /\ focusedVaultSubscribers = {}
    /\ batchTraceSubscribers = {2}
    /\ notified.chan = "batch"
    /\ notified.subs = {2}

\* C10: the continuation of a pass all of whose folders resolved to null,
\* and a poll without workspace folders, leave focusedVault, the vault
\* objects and lastVaultFoundTimestamp as they are and call no listener.
C10_EmptyPassIsNoOp ==
    [][(\/ /\ turn'.op = "CheckContinuation"
           /\ \E i \in 1..Len(checks) :
                 /\ DOMAIN checks[i] = 1..Len(workspaceFolders)
                 /\ \A r \in DOMAIN checks[i] : checks[i][r] = NullEntry
                 /\ checks' = RemoveAt(checks, i)
        \/ turn'.op = "PollingTick" /\ checks' = checks)
       => (/\ focusedVault' = focusedVault
           /\ vaults' = vaults
           /\ lastVaultFoundTimestamp' = lastVaultFoundTimestamp
           /\ notified' = NoCall)]_vars

\* An empty pass has just completed under a focused vault that holds
\* traces, with listeners in both registries.
C10_Witness ==
    /\ turn.op = "CheckContinuation"
    /\ turn.key = ""
    /\ focusedVault # 0
    /\ vaults[focusedVault].tracesData # <<>>
    /\ vaults[focusedVault].pendingTraces # <<>>
    /\ focusedVaultSubscribers # {}
    /\ batchTraceSubscribers # {}
    /\ notified = NoCall

\* C11: when dispose() returns, no polling timer is armed, close() has been
\* called on the socket the focused vault held, getFocusedVault() is null
\* and getFocusedVaultTraces() is empty; dispose() called again in that
\* state changes nothing.
C11_StopPostcondition ==
    [][turn'.op = "dispose" =>
        /\ ~vaultKeyPollingInterval'
        /\ intervals' = 0
        /\ getFocusedVault' = 0
        /\ getFocusedVaultTraces' = <<>>
        /\ (focusedVault # 0 /\ vaults[focusedVault].wsConnection)
             => /\ focusedVault \in DOMAIN vaults'
                /\ vaults'[focusedVault].closeCalled
        /\ (focusedVault = 0 /\ ~vaultKeyPollingInterval)
             => UNCHANGED <<focusedVault, vaults, lastVaultFoundTimestamp,
                            vaultKeyPollingInterval, intervals,
                            focusedVaultSubscribers, batchTraceSubscribers,
                            nextUuid, checks>>]_vars

\* dispose() was called again while the socket closed by the first call,
\* whose vault holds traces, is still closing.
C11_Witness ==
    /\ turn.op = "dispose"
    /\ turn.slot = 0
    /\ focusedVault = 0
    /\ ~vaultKeyPollingInterval
    /\ \E s \in DOMAIN vaults :
          /\ vaults[s].closeCalled
          /\ vaults[s].sock = "closing"
          /\ vaults[s].tracesData # <<>>

\* The sockets on which close() has not been called and that have not closed.
OpenConnections == {s \in DOMAIN vaults : vaults[s].sock # "closed" /\ ~vaults[s].closeCalled}

\* C12: however startVaultKeyMonitoring() calls interleave with passes and
\* socket events, at most one polling timer is armed, and at most one socket
\* exists on which close() has not been called: the focused vault's.
C12_OneTimerOneConnection ==
    /\ intervals <= 1
    /\ vaultKeyPollingInterval <=> intervals = 1
    /\ Cardinality(OpenConnections) <= 1
    /\ OpenConnections \subseteq {focusedVault}

\* startVaultKeyMonitoring() was called again while a vault was focused and
\* the timer armed: the vault's socket is closing, one timer is armed.
C12_Witness ==
    /\ turn.op = "startVaultKeyMonitoring"
    /\ turn.slot \in DOMAIN vaults
    /\ vaults[turn.slot].closeCalled
    /\ lastVaultFoundTimestamp > 0
    /\ intervals = 1
    /\ OpenConnections = {}

\* C13: a decoded frame is taken as the initial backlog (it becomes
\* tracesData and goes to the listeners at once, the buffer untouched)
\* exactly when it is an array and no frame was received on the socket
\* before it; every other decoded frame is appended to tracesData and
\* queued, also an array that follows a frame that failed to decode.
C13_FrameClassification ==
    [][\A s \in DOMAIN vaults :
        (turn'.op = "OnMessage" /\ turn'.slot = s /\ turn'.frame.kind # "bad")
        => IF turn'.frame.kind = "array" /\ ~vaults[s].received
           THEN /\ vaults'[s].tracesData = turn'.frame.data
                /\ vaults'[s].pendingTraces = vaults[s].pendingTraces
                /\ vaults'[s].throttleTimers = vaults[s].throttleTimers
                /\ notified' = sendTracesImmediately(s, turn'.frame.data)
           ELSE /\ vaults'[s].tracesData = vaults[s].tracesData \o turn'.frame.data
                /\ vaults'[s].pendingTraces = vaults[s].pendingTraces \o turn'.frame.data
                /\ vaults'[s].throttleTimers = 1
                /\ notified' = NoCall]_vars

\* C14: switchFocusedVault(key) called with the focused vault's key leaves
\* focusedVault, every FocusedVault object (socket, tracesData,
\* pendingTraces, timers) and lastVaultFoundTimestamp as they are and calls
\* each registered focus listener once with the focused vault; called with
\* another key it calls each of them once with the FocusedVault it created.
C14_SameKeySwitch ==
    [][turn'.op = "switchFocusedVault" =>
        /\ notified'.chan = "focus"
        /\ notified'.subs = focusedVaultSubscribers
        /\ notified'.vault = focusedVault'
        /\ lastVaultFoundTimestamp' = lastVaultFoundTimestamp
        /\ IF FocusKey = turn'.key
           THEN /\ focusedVault' = focusedVault
                /\ vaults' = vaults
           ELSE /\ focusedVault' # 0
                /\ vaults'[focusedVault'] = NewFocusedVault(turn'.key, 0)
                /\ \A s \in DOMAIN vaults' \ {focusedVault'} :
                      vaults'[s].sock # "closed" => vaults'[s].closeCalled]_vars

\* switchFocusedVault was called with the key of the focused vault, which
\* holds traces not yet flushed, with a focus listener registered.
C14_Witness ==
    /\ turn.op = "switchFocusedVault"
    /\ FocusKey = turn.key
    /\ DOMAIN vaults = {focusedVault}
    /\ vaults[focusedVault].tracesData # <<>>
    /\ vaults[focusedVault].pendingTraces # <<>>
    /\ vaults[focusedVault].sock = "open"
    /\ notified.chan = "focus"
    /\ notified.subs # {}

\* C15: a frame that fails to parse leaves the socket as it is, and
\* tracesData, pendingTraces, the throttle timer and everything else of the
\* FocusedVault that decides how later frames are handled; it calls no
\* listener and arms no reconnect timer.
C15_BadFrameIsDropped ==
    [][\A s \in DOMAIN vaults :
        (turn'.op = "OnMessage" /\ turn'.slot = s /\ turn'.frame.kind = "bad")
        => /\ vaults' = [vaults EXCEPT ![s].received = TRUE]
           /\ vaults'[s].sock = vaults[s].sock
           /\ vaults'[s].tracesData = vaults[s].tracesData
           /\ vaults'[s].pendingTraces = vaults[s].pendingTraces
           /\ vaults'[s].throttleTimeout = vaults[s].throttleTimeout
           /\ vaults'[s].throttleTimers = vaults[s].throttleTimers
           /\ vaults'[s].reconnectTimer = vaults[s].reconnectTimer
           /\ focusedVault' = focusedVault
           /\ notified' = NoCall]_vars

\* A frame that failed to parse arrived on an open socket whose vault holds
\* traces, some of them queued with the timer armed, with a batch listener.
C15_Witness ==
    /\ turn.op = "OnMessage"
    /\ turn.frame.kind = "bad"
    /\ turn.slot \in DOMAIN vaults
    /\ vaults[turn.slot].sock = "open"
    /\ vaults[turn.slot].tracesData # <<>>
    /\ vaults[turn.slot].pendingTraces # <<>>
    /\ vaults[turn.slot].throttleTimers = 1
    /\ batchTraceSubscribers # {}
    /\ notified = NoCall

\* C16: the closure of the focused vault's socket, not asked for by this
\* side, arms the reconnect timer with the delay 2^(retries + 1) + 100, and
\* when that timer fires under the same focus the focused vault is a new
\* attempt whose retry count is one greater than that of the attempt whose
\* socket closed; so the k-th closure in a row is followed by attempt k.
C16_BackoffProgression ==
    [][/\ (/\ turn'.op = "OnClose"
           /\ turn'.slot = focusedVault
           /\ ~vaults[focusedVault].closeCalled)
          => /\ vaults'[focusedVault].reconnectTimer
             /\ vaults'[focusedVault].reconnectDelay =
                   2 ^ (vaults[focusedVault].retries + 1) + 100
       /\ (/\ turn'.op = "ReconnectFire"
           /\ turn'.slot = focusedVault
           /\ ~vaults[focusedVault].closeCalled)
          => /\ focusedVault' # 0
             /\ vaults'[focusedVault'].key = turn'.key
             /\ vaults'[focusedVault'].retries = vaults[focusedVault].retries + 1]_vars

\* p is a prefix of q.
IsPrefix(p, q) == Len(p) <= Len(q) /\ SubSeq(q, 1, Len(p)) = p

\* C17: the tracesData of every FocusedVault is the records of the frames
\* its socket received and JSON.parse accepted, in arrival order, flushed
\* or not; and as long as the focused key stays the same, what
\* getFocusedVaultTraces() returned before is a prefix of what it returns
\* after every step.
C17_AppendOnly ==
    [][/\ \A s \in DOMAIN vaults' : vaults'[s].tracesData = vaults'[s].arrived
       /\ (FocusKey # "" /\ FocusKey' = FocusKey)
          => IsPrefix(getFocusedVaultTraces, getFocusedVaultTraces')]_vars

\* The focused vault took the backlog <<t1>> and then the array <<t2>>,
\* not yet flushed.
C17_Witness ==
    /\ turn.op = "OnMessage"
    /\ turn.frame = [kind |-> "array", data |-> <<"t2">>]
    /\ turn.slot = focusedVault
    /\ getFocusedVaultTraces = <<"t1", "t2">>
    /\ vaults[focusedVault].delivered = <<"immediate">>
    /\ vaults[focusedVault].pendingTraces = <<"t2">>

\* C18: once dispose() has returned, and until startVaultKeyMonitoring() or
\* switchFocusedVault() is called from outside, no vault is focused and no
\* FocusedVault is created, whatever pass or reconnect timer was under way.
C18_StopIsFinal ==
    [][(/\ focusedVault = 0
        /\ ~vaultKeyPollingInterval
        /\ turn'.op \notin {"startVaultKeyMonitoring", "switchFocusedVault"})
       => (/\ getFocusedVault' = 0
           /\ DOMAIN vaults' \subseteq DOMAIN vaults)]_vars

\* C19: when the focus was cleared by dispose() or startVaultKeyMonitoring(),
\* monitoring runs again, and a pass completes whose most recent entry is
\* the most recent one reported before the focus was cleared, that entry's
\* vault is focused again, with a new FocusedVault.
C19_RestartRefocuses ==
    [][(/\ turn'.op = "CheckContinuation"
        /\ focusedVault = 0
        /\ vaultKeyPollingInterval
        /\ \E i \in 1..Len(checks) :
              /\ DOMAIN checks[i] = 1..Len(workspaceFolders)
              /\ checks' = RemoveAt(checks, i)
              /\ mostRecentVault(checks[i]) \in MostRecentObserved)
       => (/\ focusedVault' # 0
           /\ vaults'[focusedVault'] = NewFocusedVault(turn'.key, 0))]_vars

\* C20: in every state, a FocusedVault has at most one throttle timer
\* armed, and exactly one when pendingTraces is not empty; the records
\* passed to onBatchTrace so far followed by pendingTraces are the records
\* that arrived, each once and in order; and a pendingTraces that is not
\* empty is flushed to onBatchTrace in the end, by the timer that was armed
\* no later than its first record was queued.
C20_NoStrandedIncrements ==
    /\ [](\A s \in DOMAIN vaults :
            /\ vaults[s].throttleTimers <= 1
            /\ vaults[s].throttleTimeout <=> vaults[s].throttleTimers = 1
            /\ vaults[s].pendingTraces # <<>> => vaults[s].throttleTimers = 1
            /\ vaults[s].handed \o vaults[s].pendingTraces = vaults[s].arrived)
    /\ \A s \in 1..MaxVaults :
          (s \in DOMAIN vaults /\ vaults[s].pendingTraces # <<>>)
          ~> (/\ turn.op = "ThrottleFire"
              /\ turn.slot = s
              /\ notified.chan = "batch"
              /\ notified.traces # <<>>)

\* The timer has just flushed the records t2 and t1, queued by two frames:
\* the vault has handed over everything that arrived.
C20_Witness ==
    /\ turn.op = "ThrottleFire"
    /\ notified.chan = "batch"
    /\ notified.traces = <<"t2", "t1">>
    /\ turn.slot \in DOMAIN vaults
    /\ vaults[turn.slot].arrived = <<"t2", "t1">>
    /\ vaults[turn.slot].handed = <<"t2", "t1">>
    /\ vaults[turn.slot].pendingTraces = <<>>
    /\ vaults[turn.slot].throttleTimers = 0

====
